---- MODULE Spec2Model ----
(***************************************************************************)
(* Model of cortx.utils.message_bus.message_bus_client: the client classes *)
(* MessageBusClient, MessageBusAdmin, MessageProducer and MessageConsumer, *)
(* run against a recording backend (the MessageBus static interface).      *)
(*                                                                         *)
(* One client object is constructed and then driven through an arbitrary   *)
(* sequence of operations.  `calls` is the log of backend calls in the     *)
(* order they are made; `last` is the outcome of the latest invocation as  *)
(* the caller sees it (normal return or the exception raised).             *)
(***************************************************************************)
EXTENDS Naturals, Sequences, FiniteSets

VARIABLES
    phase,        \* "start": no client yet, "ready": constructed, "failed": __init__ raised
    cls,          \* class of the client object
    client_type,  \* client_type handed to MessageBusClient.__init__
    client_conf,  \* self._client_conf
    ctor_conf,    \* history: the kwargs handed to MessageBusClient.__init__
    calls,        \* backend log: the MessageBus.* calls, oldest first
    last          \* outcome of the latest invocation

vars == <<phase, cls, client_type, client_conf, ctor_conf, calls, last>>

-----------------------------------------------------------------------------
(* Bounds and input sets *)

\* Longest backend log explored (the init_client call included).
MaxCalls == 3
\* Longest batch handed to send().
MaxBatch == 2

NoneVal == "None"
NoArg == "-"
EmptyConf == [k \in {} |-> NoneVal]

Ids == {"p1"}
MessageTypes == {"Alert"}
Methods == {"sync"}

\* A message as the caller hands it over: a str, a KvPayload (val is the
\* value of its single entry "k") or something else (an int).
StrMsg == [type |-> "str", val |-> "hello"]
KvMsg == [type |-> "KvPayload", val |-> "v"]
IntMsg == [type |-> "int", val |-> "42"]
NoMsg == [type |-> NoArg, val |-> NoArg]
Msgs == {StrMsg, KvMsg, IntMsg}

RECURSIVE SeqsUpTo(_, _)
SeqsUpTo(S, n) ==
    IF n = 0 THEN {<<>>}
    ELSE LET shorter == SeqsUpTo(S, n - 1)
         IN shorter \cup {Append(s, x) : s \in {t \in shorter : Len(t) = n - 1}, x \in S}

Batches == SeqsUpTo(Msgs, MaxBatch)

-----------------------------------------------------------------------------
(* Outcomes *)

OK == "ok"
ConfigKeyMissing == "MessageBusError(ENOENT)"
InvalidMessageFormat == "MessageBusError(EINVAL)"
BackendInitError == "init_client raised"
BackendOperationError == "backend raised"

Outcome(op, err, key, val, batch) ==
    [op |-> op, err |-> err, key |-> key, val |-> val,
     before |-> Len(calls), batch |-> batch]

\* A backend call as the recording backend logs it.
NoCall ==
    [op |-> NoArg, client_type |-> NoArg, conf |-> EmptyConf,
     client_id |-> NoArg, message_type |-> NoArg, method |-> NoArg,
     messages |-> <<>>, args |-> <<>>]

-----------------------------------------------------------------------------
(* Pure helpers *)

\* KvPayload.json: the JSON text of the payload's data.
Json(m) == "{\"k\": \"" \o m.val \o "\"}"

\* MessageBusClient._get_conf
get_conf_default(conf, key) ==
    [err |-> FALSE, key |-> key,
     val |-> IF key \in DOMAIN conf THEN conf[key] ELSE NoneVal]

get_conf(conf, key) ==
    IF key \notin DOMAIN conf
    THEN [err |-> TRUE, key |-> key, val |-> NoneVal]
    ELSE [err |-> FALSE, key |-> key, val |-> conf[key]]

\* One pass of the loop body of _get_str_message_list: the value appended.
to_str(message) ==
    IF message.type = "KvPayload"
    THEN [type |-> "str", val |-> Json(message)]
    ELSE message

\* MessageBusClient._get_str_message_list: err, the offending value, and
\* the list built (returned only when err is FALSE).
RECURSIVE str_list_from(_, _, _)
str_list_from(messages, i, message_list) ==
    IF i > Len(messages)
    THEN [err |-> FALSE, val |-> NoMsg, list |-> message_list]
    ELSE LET message == to_str(messages[i])
         IN IF message.type # "str"
            THEN [err |-> TRUE, val |-> message, list |-> <<>>]
            ELSE str_list_from(messages, i + 1, Append(message_list, message.val))

RECURSIVE str_list_skip(_, _, _)
str_list_skip(messages, i, message_list) ==
    IF i > Len(messages)
    THEN [err |-> FALSE, val |-> NoMsg, list |-> message_list]
    ELSE LET message == to_str(messages[i])
         IN IF message.type # "str"
            THEN str_list_skip(messages, i + 1, message_list)
            ELSE str_list_skip(messages, i + 1, Append(message_list, message.val))

RECURSIVE str_list_prepend(_, _, _)
str_list_prepend(messages, i, message_list) ==
    IF i > Len(messages)
    THEN [err |-> FALSE, val |-> NoMsg, list |-> message_list]
    ELSE LET message == to_str(messages[i])
         IN IF message.type # "str"
            THEN [err |-> TRUE, val |-> message, list |-> <<>>]
            ELSE str_list_prepend(messages, i + 1, <<message.val>> \o message_list)

get_str_message_list_skip(messages) == str_list_skip(messages, 1, <<>>)

get_str_message_list_prepend(messages) == str_list_prepend(messages, 1, <<>>)

get_str_message_list(messages) == str_list_from(messages, 1, <<>>)

-----------------------------------------------------------------------------
(* Steps shared by the operations *)

\* The invocation ends by raising err (a failed lookup or conversion):
\* nothing was handed to the backend.
Raise(op, err, key, val, batch) ==
    /\ last' = Outcome(op, err, key, val, batch)
    /\ UNCHANGED <<phase, cls, client_type, client_conf, ctor_conf, calls>>

\* MessageBus.<op>(...): the backend logs the call, then returns or raises;
\* nothing catches what it raises, so that is how the invocation ends.
Backend(call, batch) ==
    \E raised \in BOOLEAN :
        /\ calls' = Append(calls, call)
        /\ last' = Outcome(call.op, IF raised THEN BackendOperationError ELSE OK,
                           NoArg, NoMsg, batch)
        /\ UNCHANGED <<phase, cls, client_type, client_conf, ctor_conf>>

Callable == phase = "ready" /\ Len(calls) < MaxCalls

-----------------------------------------------------------------------------
(* Construction *)

\* The keys each role constructor passes on (lines 155, 170-171, 193-195).
AdminKeys == {"client_id"}
ProducerKeys == {"client_id", "message_type", "method"}
ConsumerKeys == {"client_id", "consumer_group", "message_types", "auto_ack", "offset"}

Init ==
    /\ phase = "start"
    /\ cls = NoArg
    /\ client_type = NoArg
    /\ client_conf = EmptyConf
    /\ ctor_conf = EmptyConf
    /\ calls = <<>>
    /\ last = Outcome(NoArg, OK, NoArg, NoMsg, <<>>)

\* Variant: the role's keys are looked up before the backend is initialised.
MessageBusClient_init_checked(c, t, conf) ==
    LET need == IF t = "admin" THEN AdminKeys
                ELSE IF t = "producer" THEN ProducerKeys ELSE ConsumerKeys
    IN /\ phase = "start"
       /\ cls' = c /\ client_type' = t /\ ctor_conf' = conf
       /\ IF need \subseteq DOMAIN conf
          THEN /\ calls' = Append(calls, [NoCall EXCEPT !.op = "init_client",
                                             !.client_type = t, !.conf = conf])
               /\ phase' = "ready"
               /\ client_conf' = conf
               /\ last' = Outcome("__init__", OK, NoArg, NoMsg, <<>>)
          ELSE /\ calls' = calls
               /\ phase' = "failed"
               /\ client_conf' = EmptyConf
               /\ last' = Outcome("__init__", ConfigKeyMissing,
                                  CHOOSE k \in need : k \notin DOMAIN conf, NoMsg, <<>>)

\* MessageBusClient.__init__(client_type, **client_conf) on an object of
\* class c: MessageBus.init_client first, then the kwargs are stored.  When
\* init_client raises, __init__ raises and no client comes to exist.
MessageBusClient_init(c, t, conf) ==
    /\ phase = "start"
    /\ cls' = c /\ client_type' = t /\ ctor_conf' = conf
    /\ \E raised \in BOOLEAN :
        /\ calls' = Append(calls, [NoCall EXCEPT !.op = "init_client",
                                      !.client_type = t, !.conf = conf])
        /\ phase' = IF raised THEN "failed" ELSE "ready"
        /\ client_conf' = IF raised THEN EmptyConf ELSE conf
        /\ last' = Outcome("__init__", IF raised THEN BackendInitError ELSE OK,
                           NoArg, NoMsg, <<>>)

\* MessageBusClient(client_type, **client_conf): the base class used as it
\* is, with whatever keyword arguments the caller gives.
MessageBusClient ==
    \E t \in {"admin", "producer", "consumer"}, ks \in SUBSET ProducerKeys,
       id \in Ids, mt \in MessageTypes, m \in Methods :
        LET full == [client_id |-> id, message_type |-> mt, method |-> m]
        IN MessageBusClient_init("MessageBusClient", t, [k \in ks |-> full[k]])

\* MessageBusAdmin(admin_id)
MessageBusAdmin ==
    \E admin_id \in Ids :
        MessageBusClient_init("MessageBusAdmin", "admin", [client_id |-> admin_id])

\* MessageProducer(producer_id, message_type, method=None)
MessageProducer ==
    \E producer_id \in Ids, message_type \in MessageTypes,
       method \in Methods \cup {NoneVal} :
        MessageBusClient_init("MessageProducer", "producer",
            [client_id |-> producer_id, message_type |-> message_type,
             method |-> method])

\* MessageConsumer(consumer_id, consumer_group, auto_ack, message_types, offset)
MessageConsumer ==
    \E consumer_id \in Ids, auto_ack \in {"True", "False"},
       message_types \in {<<mt>> : mt \in MessageTypes} :
        MessageBusClient_init("MessageConsumer", "consumer",
            [client_id |-> consumer_id, consumer_group |-> "grp",
             message_types |-> message_types, auto_ack |-> auto_ack,
             offset |-> "earliest"])

-----------------------------------------------------------------------------
(* Operations of MessageBusClient *)

list_message_types ==
    /\ Callable
    /\ LET client_id == get_conf(client_conf, "client_id")
       IN IF client_id.err
          THEN Raise("list_message_types", ConfigKeyMissing, client_id.key, NoMsg, <<>>)
          ELSE Backend([NoCall EXCEPT !.op = "list_message_types",
                                      !.client_id = client_id.val], <<>>)

register_message_type ==
    /\ Callable
    /\ \E message_types \in {<<mt>> : mt \in MessageTypes}, partitions \in {1} :
        LET client_id == get_conf(client_conf, "client_id")
        IN IF client_id.err
           THEN Raise("register_message_type", ConfigKeyMissing, client_id.key, NoMsg, <<>>)
           ELSE Backend([NoCall EXCEPT !.op = "register_message_type",
                                       !.client_id = client_id.val,
                                       !.args = <<message_types, partitions>>], <<>>)

deregister_message_type ==
    /\ Callable
    /\ \E message_types \in {<<mt>> : mt \in MessageTypes} :
        LET client_id == get_conf(client_conf, "client_id")
        IN IF client_id.err
           THEN Raise("deregister_message_type", ConfigKeyMissing, client_id.key, NoMsg, <<>>)
           ELSE Backend([NoCall EXCEPT !.op = "deregister_message_type",
                                       !.client_id = client_id.val,
                                       !.args = <<message_types>>], <<>>)

add_concurrency ==
    /\ Callable
    /\ \E message_type \in MessageTypes, concurrency_count \in {1} :
        LET client_id == get_conf(client_conf, "client_id")
        IN IF client_id.err
           THEN Raise("add_concurrency", ConfigKeyMissing, client_id.key, NoMsg, <<>>)
           ELSE Backend([NoCall EXCEPT !.op = "add_concurrency",
                                       !.client_id = client_id.val,
                                       !.args = <<message_type, concurrency_count>>], <<>>)

\* Variant: method is looked up before message_type.
send_method_first ==
    /\ Callable
    /\ \E messages \in Batches :
        LET message_type == get_conf(client_conf, "message_type")
            method == get_conf(client_conf, "method")
            client_id == get_conf(client_conf, "client_id")
            converted == get_str_message_list(messages)
        IN IF method.err
           THEN Raise("send", ConfigKeyMissing, method.key, NoMsg, messages)
           ELSE IF message_type.err
           THEN Raise("send", ConfigKeyMissing, message_type.key, NoMsg, messages)
           ELSE IF client_id.err
           THEN Raise("send", ConfigKeyMissing, client_id.key, NoMsg, messages)
           ELSE IF converted.err
           THEN Raise("send", InvalidMessageFormat, NoArg, converted.val, messages)
           ELSE Backend([NoCall EXCEPT !.op = "send",
                                       !.client_id = client_id.val,
                                       !.message_type = message_type.val,
                                       !.method = method.val,
                                       !.messages = converted.list], messages)

\* Variant: a method of None is taken as no method at all.
send_none_refused ==
    /\ Callable
    /\ \E messages \in Batches :
        LET message_type == get_conf(client_conf, "message_type")
            method == get_conf(client_conf, "method")
            client_id == get_conf(client_conf, "client_id")
            converted == get_str_message_list(messages)
        IN IF message_type.err
           THEN Raise("send", ConfigKeyMissing, message_type.key, NoMsg, messages)
           ELSE IF method.err \/ method.val = NoneVal
           THEN Raise("send", ConfigKeyMissing, method.key, NoMsg, messages)
           ELSE IF client_id.err
           THEN Raise("send", ConfigKeyMissing, client_id.key, NoMsg, messages)
           ELSE IF converted.err
           THEN Raise("send", InvalidMessageFormat, NoArg, converted.val, messages)
           ELSE Backend([NoCall EXCEPT !.op = "send",
                                       !.client_id = client_id.val,
                                       !.message_type = message_type.val,
                                       !.method = method.val,
                                       !.messages = converted.list], messages)

send ==
    /\ Callable
    /\ \E messages \in Batches :
        LET message_type == get_conf(client_conf, "message_type")
            method == get_conf(client_conf, "method")
            client_id == get_conf(client_conf, "client_id")
            converted == get_str_message_list(messages)
        IN IF message_type.err
           THEN Raise("send", ConfigKeyMissing, message_type.key, NoMsg, messages)
           ELSE IF method.err
           THEN Raise("send", ConfigKeyMissing, method.key, NoMsg, messages)
           ELSE IF client_id.err
           THEN Raise("send", ConfigKeyMissing, client_id.key, NoMsg, messages)
           ELSE IF converted.err
           THEN Raise("send", InvalidMessageFormat, NoArg, converted.val, messages)
           ELSE Backend([NoCall EXCEPT !.op = "send",
                                       !.client_id = client_id.val,
                                       !.message_type = message_type.val,
                                       !.method = method.val,
                                       !.messages = converted.list], messages)

\* Variant: message_type is taken out of the configuration (dict.pop)
\* instead of being read.
delete_pop ==
    /\ Callable
    /\ LET message_type == get_conf(client_conf, "message_type")
           client_id == get_conf(client_conf, "client_id")
       IN IF message_type.err
          THEN Raise("delete", ConfigKeyMissing, message_type.key, NoMsg, <<>>)
          ELSE \E raised \in BOOLEAN :
                /\ client_conf' = [k \in DOMAIN client_conf \ {"message_type"} |->
                                      client_conf[k]]
                /\ calls' = Append(calls, [NoCall EXCEPT !.op = "delete",
                                              !.client_id = client_id.val,
                                              !.message_type = message_type.val])
                /\ last' = Outcome("delete",
                                   IF raised THEN BackendOperationError ELSE OK,
                                   NoArg, NoMsg, <<>>)
                /\ UNCHANGED <<phase, cls, client_type, ctor_conf>>

delete ==
    /\ Callable
    /\ LET message_type == get_conf(client_conf, "message_type")
           client_id == get_conf(client_conf, "client_id")
       IN IF message_type.err
          THEN Raise("delete", ConfigKeyMissing, message_type.key, NoMsg, <<>>)
          ELSE IF client_id.err
          THEN Raise("delete", ConfigKeyMissing, client_id.key, NoMsg, <<>>)
          ELSE Backend([NoCall EXCEPT !.op = "delete",
                                      !.client_id = client_id.val,
                                      !.message_type = message_type.val], <<>>)

set_message_type_expire ==
    /\ Callable
    /\ \E message_type \in MessageTypes, kwargs \in {"expire_time_ms"} :
        LET client_id == get_conf(client_conf, "client_id")
        IN IF client_id.err
           THEN Raise("set_message_type_expire", ConfigKeyMissing, client_id.key, NoMsg, <<>>)
           ELSE Backend([NoCall EXCEPT !.op = "set_message_type_expire",
                                       !.client_id = client_id.val,
                                       !.args = <<message_type, kwargs>>], <<>>)

\* Variant: a receive is refused while message_type is not configured.
receive_needs_message_type ==
    /\ Callable
    /\ \E timeout \in {NoneVal} :
        LET message_type == get_conf(client_conf, "message_type")
            client_id == get_conf(client_conf, "client_id")
        IN IF message_type.err
           THEN Raise("receive", ConfigKeyMissing, message_type.key, NoMsg, <<>>)
           ELSE IF client_id.err
           THEN Raise("receive", ConfigKeyMissing, client_id.key, NoMsg, <<>>)
           ELSE Backend([NoCall EXCEPT !.op = "receive",
                                       !.client_id = client_id.val,
                                       !.args = <<timeout>>], <<>>)

\* Variant: a receive is refused while the previous one is unacknowledged.
receive_after_ack_only ==
    /\ Callable
    /\ \E timeout \in {NoneVal} :
        LET client_id == get_conf(client_conf, "client_id")
            pending == \E i \in 1..Len(calls) :
                          /\ calls[i].op = "receive"
                          /\ \A j \in (i + 1)..Len(calls) : calls[j].op # "ack"
        IN IF client_id.err
           THEN Raise("receive", ConfigKeyMissing, client_id.key, NoMsg, <<>>)
           ELSE IF pending
           THEN Raise("receive", "unacknowledged", NoArg, NoMsg, <<>>)
           ELSE Backend([NoCall EXCEPT !.op = "receive",
                                       !.client_id = client_id.val,
                                       !.args = <<timeout>>], <<>>)

\* Variant: with auto_ack set the receive acknowledges what it returned.
receive_auto_ack ==
    /\ Callable
    /\ \E timeout \in {NoneVal}, raised \in BOOLEAN :
        LET client_id == get_conf(client_conf, "client_id")
            auto == "auto_ack" \in DOMAIN client_conf /\ client_conf["auto_ack"] = "True"
            rcv == [NoCall EXCEPT !.op = "receive", !.client_id = client_id.val,
                                  !.args = <<timeout>>]
            ackc == [NoCall EXCEPT !.op = "ack", !.client_id = client_id.val]
        IN IF client_id.err
           THEN Raise("receive", ConfigKeyMissing, client_id.key, NoMsg, <<>>)
           ELSE /\ calls' = IF auto /\ ~raised THEN calls \o <<rcv, ackc>>
                            ELSE Append(calls, rcv)
                /\ last' = Outcome("receive",
                                   IF raised THEN BackendOperationError ELSE OK,
                                   NoArg, NoMsg, <<>>)
                /\ UNCHANGED <<phase, cls, client_type, client_conf, ctor_conf>>

receive ==
    /\ Callable
    /\ \E timeout \in {NoneVal} :
        LET client_id == get_conf(client_conf, "client_id")
        IN IF client_id.err
           THEN Raise("receive", ConfigKeyMissing, client_id.key, NoMsg, <<>>)
           ELSE Backend([NoCall EXCEPT !.op = "receive",
                                       !.client_id = client_id.val,
                                       !.args = <<timeout>>], <<>>)

ack ==
    /\ Callable
    /\ LET client_id == get_conf(client_conf, "client_id")
       IN IF client_id.err
          THEN Raise("ack", ConfigKeyMissing, client_id.key, NoMsg, <<>>)
          ELSE Backend([NoCall EXCEPT !.op = "ack",
                                      !.client_id = client_id.val], <<>>)

-----------------------------------------------------------------------------

Next ==
    \/ MessageBusClient
    \/ MessageBusAdmin
    \/ MessageProducer
    \/ MessageConsumer
    \/ list_message_types
    \/ register_message_type
    \/ deregister_message_type
    \/ add_concurrency
    \/ send
    \/ delete
    \/ set_message_type_expire
    \/ receive
    \/ ack

Spec == Init /\ [][Next]_vars

-----------------------------------------------------------------------------
(* Vocabulary of the properties *)

Ops ==
    {"list_message_types", "register_message_type", "deregister_message_type",
     "add_concurrency", "send", "delete", "set_message_type_expire", "receive",
     "ack"}

\* The keys the specification says each operation requires.
RequiredKeys(op) ==
    IF op = "send" THEN {"client_id", "message_type", "method"}
    ELSE IF op = "delete" THEN {"client_id", "message_type"}
    ELSE {"client_id"}

\* The keys the specification says each role's configuration holds.
RoleKeys(role) ==
    IF role = "admin" THEN {"client_id"}
    ELSE IF role = "producer" THEN {"client_id", "message_type", "method"}
    ELSE {"client_id", "consumer_group", "message_types", "auto_ack", "offset"}

IsValid(m) == m.type \in {"str", "KvPayload"}
AllValid(batch) == \A i \in 1..Len(batch) : IsValid(batch[i])

\* The backend calls the latest invocation made.
Issued == SubSeq(calls, last.before + 1, Len(calls))

IsAdmin == phase = "ready" /\ cls = "MessageBusAdmin"
IsProducer == phase = "ready" /\ cls = "MessageProducer"
IsConsumer == phase = "ready" /\ cls = "MessageConsumer"

-----------------------------------------------------------------------------
(* Properties *)

\* C1: a send() on a client holding client_id, message_type and method, with
\* a batch that has an element that is neither a KvPayload nor a str at any
\* position, raises the invalid-format error carrying an offending element
\* of the batch, and makes no backend call.
C1_AllOrNothing ==
    (/\ last.op = "send"
     /\ {"client_id", "message_type", "method"} \subseteq DOMAIN client_conf
     /\ ~AllValid(last.batch))
    => /\ last.err = InvalidMessageFormat
       /\ \E i \in 1..Len(last.batch) :
             ~IsValid(last.batch[i]) /\ last.val = last.batch[i]
       /\ Issued = <<>>

C1_Witness ==
    /\ last.op = "send"
    /\ {"client_id", "message_type", "method"} \subseteq DOMAIN client_conf
    /\ last.batch = <<StrMsg, IntMsg>>
    /\ last.err = InvalidMessageFormat

\* C2: an operation invoked on a configuration lacking a key it requires
\* raises the missing-key error naming a key that is required and absent,
\* and makes no backend call; for send() also when the batch is invalid.
C2_FailFastOnMissingKey ==
    (/\ last.op \in Ops
     /\ ~(RequiredKeys(last.op) \subseteq DOMAIN client_conf))
    => /\ last.err = ConfigKeyMissing
       /\ last.key \in RequiredKeys(last.op) \ DOMAIN client_conf
       /\ Issued = <<>>

C2_Witness ==
    /\ last.op = "send"
    /\ "method" \notin DOMAIN client_conf
    /\ "message_type" \in DOMAIN client_conf
    /\ ~AllValid(last.batch)
    /\ last.err = ConfigKeyMissing

\* C3: an Administrator's configuration never holds message_type, and every
\* send() on it raises the missing-key error naming message_type without a
\* backend call.
C3_AdminSendFails ==
    IsAdmin
    => /\ "message_type" \notin DOMAIN client_conf
       /\ last.op = "send"
          => /\ last.err = ConfigKeyMissing
             /\ last.key = "message_type"
             /\ Issued = <<>>

C3_Witness ==
    /\ IsAdmin
    /\ last.op = "send"
    /\ last.err = ConfigKeyMissing
    /\ Len(calls) > 1

\* C4 as stated: neither send() nor receive() of an Administrator reaches
\* the backend.
C4_AdminNeverSendsOrReceives ==
    IsAdmin => \A i \in 1..Len(calls) : calls[i].op \notin {"send", "receive"}

\* C4 amended: send() of an Administrator never reaches the backend, while
\* receive() of an Administrator is delegated: it makes one backend receive
\* call with the administrator's client_id.
C4_AdminSendBlockedReceiveDelegated ==
    IsAdmin
    => /\ \A i \in 1..Len(calls) : calls[i].op # "send"
       /\ last.op = "receive"
          => /\ Len(Issued) = 1
             /\ Issued[1].op = "receive"
             /\ Issued[1].client_id = client_conf["client_id"]
             /\ last.err \in {OK, BackendOperationError}

C4_Witness ==
    /\ IsAdmin
    /\ last.op = "receive"
    /\ last.err = OK
    /\ calls[Len(calls)].op = "receive"

\* C5 as stated: a construction whose configuration lacks a key of the
\* role's required set makes no backend call.
C5_NoBackendCallOnMissingKey ==
    (/\ phase # "start"
     /\ ~(RoleKeys(client_type) \subseteq DOMAIN ctor_conf))
    => calls = <<>>

\* C5 amended: every construction, also one whose configuration lacks keys
\* of the role's required set, makes exactly one backend init_client call,
\* carrying the role and the configuration as given, and reports no missing
\* key; the role constructors always pass the role's full key set.
C5_InitClientAlwaysCalled ==
    phase # "start"
    => /\ Len(calls) >= 1
       /\ calls[1].op = "init_client"
       /\ calls[1].client_type = client_type
       /\ calls[1].conf = ctor_conf
       /\ \A i \in 2..Len(calls) : calls[i].op # "init_client"
       /\ last.op = "__init__" => last.err \in {OK, BackendInitError}
       /\ cls # "MessageBusClient" => DOMAIN ctor_conf = RoleKeys(client_type)

C5_Witness ==
    /\ phase = "ready"
    /\ last.op = "__init__"
    /\ client_type = "producer"
    /\ DOMAIN ctor_conf = {"client_id"}
    /\ Len(calls) = 1
    /\ calls[1].op = "init_client"

\* C6: the configuration of a constructed client equals the mapping handed
\* to the constructor, after any sequence of operations.
C6_ConfImmutable ==
    phase = "ready" => client_conf = ctor_conf

C6_Witness ==
    /\ phase = "ready"
    /\ Len(calls) >= 2
    /\ \E i \in 1..Len(calls) : calls[i].op = "delete"
    /\ last.op = "send"
    /\ last.err = ConfigKeyMissing
    /\ client_conf = ctor_conf

\* C7: a send() on a Producer with a batch of KvPayloads and strs makes
\* exactly one backend send call, with the configured client_id,
\* message_type and method, and with as many messages as the batch has
\* elements, the i-th being the i-th str or the i-th KvPayload's JSON text.
C7_OrderPreservingSend ==
    (IsProducer /\ last.op = "send" /\ AllValid(last.batch))
    => /\ Len(Issued) = 1
       /\ Issued[1].op = "send"
       /\ Issued[1].client_id = client_conf["client_id"]
       /\ Issued[1].message_type = client_conf["message_type"]
       /\ Issued[1].method = client_conf["method"]
       /\ Len(Issued[1].messages) = Len(last.batch)
       /\ \A i \in 1..Len(last.batch) :
             Issued[1].messages[i] =
                 IF last.batch[i].type = "str" THEN last.batch[i].val
                 ELSE Json(last.batch[i])

C7_Witness ==
    /\ IsProducer
    /\ last.op = "send"
    /\ last.batch = <<KvMsg, StrMsg>>
    /\ Len(Issued) = 1
    /\ Issued[1].messages = <<"{\"k\": \"v\"}", "hello">>

\* C8 as stated: between two backend receive calls of a Consumer there is
\* an ack call.
C8_AckBetweenReceives ==
    IsConsumer
    => \A i, j \in 1..Len(calls) :
          (i < j /\ calls[i].op = "receive" /\ calls[j].op = "receive")
          => \E k \in (i + 1)..(j - 1) : calls[k].op = "ack"

\* C8 amended: every receive() on a Consumer makes one backend receive call
\* with the consumer's client_id, whether or not the previous receive() has
\* been acknowledged.
C8_ReceiveAlwaysDelegated ==
    (IsConsumer /\ last.op = "receive")
    => /\ Len(Issued) = 1
       /\ Issued[1].op = "receive"
       /\ Issued[1].client_id = client_conf["client_id"]

C8_Witness ==
    /\ IsConsumer
    /\ Len(calls) = 3
    /\ calls[2].op = "receive"
    /\ calls[3].op = "receive"
    /\ last.op = "receive"

\* C9 as stated: every backend send call of a Producer carries a delivery
\* method the caller supplied, and a Producer constructed without one
\* forwards nothing.
C9_SendCarriesSuppliedMethod ==
    IsProducer
    => \A i \in 1..Len(calls) :
          calls[i].op = "send" => calls[i].method # NoneVal

\* C9 amended: every backend send call of a Producer carries the method
\* stored at construction, which is None when the caller supplied none; a
\* send() of a valid batch on such a Producer is forwarded with method None.
C9_SendCarriesStoredMethod ==
    IsProducer
    => /\ \A i \in 1..Len(calls) :
             calls[i].op = "send" => calls[i].method = ctor_conf["method"]
       /\ (last.op = "send" /\ AllValid(last.batch) /\ ctor_conf["method"] = NoneVal)
          => /\ Len(Issued) = 1
             /\ Issued[1].op = "send"
             /\ Issued[1].method = NoneVal
             /\ Len(Issued[1].messages) = Len(last.batch)

C9_Witness ==
    /\ IsProducer
    /\ ctor_conf["method"] = NoneVal
    /\ last.op = "send"
    /\ last.batch = <<StrMsg>>
    /\ calls[Len(calls)].op = "send"
    /\ calls[Len(calls)].method = NoneVal

\* C10: an invocation whose required keys are present (and, for send(),
\* whose batch is valid) makes exactly one backend call: the operation of
\* the same name, with the client's client_id.  A receive() makes no ack
\* call, whatever auto_ack is, and a backend failure is passed to the
\* caller without the call being made again.
C10_OneCallPerInvocation ==
    (/\ last.op \in Ops
     /\ RequiredKeys(last.op) \subseteq DOMAIN client_conf
     /\ last.op = "send" => AllValid(last.batch))
    => /\ Len(Issued) = 1
       /\ Issued[1].op = last.op
       /\ Issued[1].client_id = client_conf["client_id"]
       /\ last.err \in {OK, BackendOperationError}

C10_Witness ==
    /\ IsConsumer
    /\ client_conf["auto_ack"] = "True"
    /\ last.op = "receive"
    /\ last.err = BackendOperationError
    /\ Len(Issued) = 1
    /\ Issued[1].op = "receive"

====
